---- MODULE Spec2Model ----
(***************************************************************************)
(* Model of login-mate1.0/src/types/user.ts: the two input masks maskCep   *)
(* and maskCpf, the zod schema rule of the cpf field, and the RegisterForm *)
(* component (the controlled CPF and CEP fields, handleCepChange and the   *)
(* address lookup it starts).                                              *)
(*                                                                         *)
(* A JavaScript string is a sequence of one-character strings, so that     *)
(* "111.4" is <<"1","1","1",".","4">> and '' is <<>>.                      *)
(***************************************************************************)
EXTENDS Integers, Sequences, FiniteSets, TLC

VARIABLES
    input,       \* the string argument handed to a pure function
    call,        \* which pure function has been applied to input so far
    masked,      \* the value the mask returned for input
    remasked,    \* the value the same mask returned for masked
    other,       \* a second string with the digits of input, written differently
    verdict,     \* what the validation answered for input and for other
    form,        \* the values react-hook-form holds (useForm, setValue, watch)
    loadingCep,  \* useState(false)
    lookups,     \* the axios.get calls of handleCepChange, in the order issued
    lastChange   \* the last change event: its field, e.target.value, the lookup it issued

pureVars == <<input, call, masked, remasked, other, verdict>>

formVars == <<form, loadingCep, lookups, lastChange>>

vars == <<pureVars, formVars>>

----------------------------------------------------------------------------
(* Characters and string helpers                                           *)

Digits == {"0", "1", "2", "3", "4", "5", "6", "7", "8", "9"}

IsDigit(c) == c \in Digits

Min(a, b) == IF a < b THEN a ELSE b

\* String.prototype.slice(0, n) for n >= 0
Slice(s, n) == SubSeq(s, 1, Min(n, Len(s)))

\* s with the string t inserted after its first p characters
InsertAt(s, p, t) == SubSeq(s, 1, p) \o t \o SubSeq(s, p + 1, Len(s))

\* s.replace(/\D/g, '')
StripNonDigits(s) == SelectSeq(s, IsDigit)

\* TRUE iff s[from..to] exists and holds digits only
DigitsAt(s, from, to) == to <= Len(s) /\ \A i \in from..to : IsDigit(s[i])

----------------------------------------------------------------------------
(* maskCep                                                                 *)

CepSliceLen == 9

\* the replacement written '$1-': the digit matched by the second group is lost
CepHyphenDropsDigit(s) ==
    IF DigitsAt(s, 1, 6) THEN SubSeq(s, 1, 5) \o <<"-">> \o SubSeq(s, 7, Len(s)) ELSE s

\* .replace(/^(\d{5})(\d)/, '$1-$2')
CepHyphen(s) ==
    IF DigitsAt(s, 1, 6) THEN InsertAt(s, 5, <<"-">>) ELSE s

\* slice(0, 8): the cut taken at the number of digits, not of characters
CepSliceAtDigitCount(s) == Slice(s, CepSliceLen - 1)

CepSlice(s) == Slice(s, CepSliceLen)

maskCep(cep) == CepSlice(CepHyphen(StripNonDigits(cep)))

----------------------------------------------------------------------------
(* maskCpf                                                                 *)

CpfSliceLen == 14

\* /^(\d{3})/ -> '$1.': the dot written as soon as the third digit is there
CpfFirstDotEager(s) ==
    IF DigitsAt(s, 1, 3) THEN InsertAt(s, 3, <<".">>) ELSE s

\* .replace(/^(\d{3})(\d)/, '$1.$2')
CpfFirstDot(s) ==
    IF DigitsAt(s, 1, 4) THEN InsertAt(s, 3, <<".">>) ELSE s

\* the replacement written '$1.$2.': the digit matched by the third group is lost
CpfSecondDotDropsDigit(s) ==
    IF /\ DigitsAt(s, 1, 3)
       /\ Len(s) >= 4 /\ s[4] = "."
       /\ DigitsAt(s, 5, 8)
    THEN SubSeq(s, 1, 7) \o <<".">> \o SubSeq(s, 9, Len(s))
    ELSE s

\* .replace(/^(\d{3})\.(\d{3})(\d)/, '$1.$2.$3')
CpfSecondDot(s) ==
    IF /\ DigitsAt(s, 1, 3)
       /\ Len(s) >= 4 /\ s[4] = "."
       /\ DigitsAt(s, 5, 8)
    THEN InsertAt(s, 7, <<".">>)
    ELSE s

\* the positions at which /\.(\d{3})(\d)/ matches in s
CpfHyphenMatches(s) ==
    {i \in 1..Len(s) : s[i] = "." /\ DigitsAt(s, i + 1, i + 4)}

\* .replace(/\.(\d{3})(\d)/, '.$1-$2'): no g flag, the leftmost match only
CpfHyphen(s) ==
    LET at == CpfHyphenMatches(s)
    IN  IF at = {} THEN s
        ELSE LET i == CHOOSE m \in at : \A n \in at : m <= n
             IN  InsertAt(s, i + 3, <<"-">>)

CpfSlice(s) == Slice(s, CpfSliceLen)

maskCpf(cpf) ==
    CpfSlice(CpfHyphen(CpfSecondDot(CpfFirstDot(StripNonDigits(cpf)))))

----------------------------------------------------------------------------
(* validateCPF (utils/validateCpf, imported at line 44) and the rule of    *)
(* the cpf field of registerSchema                                         *)

DigitChars == <<"0", "1", "2", "3", "4", "5", "6", "7", "8", "9">>

DigitValue(c) == (CHOOSE i \in 1..10 : DigitChars[i] = c) - 1

\* d[1]*weight + d[2]*(weight-1) + ... over the first n digits of d
RECURSIVE WeightedSum(_, _, _)
WeightedSum(d, n, weight) ==
    IF n = 0 THEN 0
    ELSE WeightedSum(d, n - 1, weight) + DigitValue(d[n]) * (weight - n + 1)

AllSameDigit(d) == \A i \in 1..Len(d) : d[i] = d[1]

\* the check digit for a weighted sum
CheckDigit(sum) ==
    LET remainder == sum % 11
    IN  IF remainder < 2 THEN 0 ELSE 11 - remainder

\* validateCPF without the rejection of the repeated-digit sentinels
validateCPFKeepsSentinels(cpf) ==
    LET d == StripNonDigits(cpf)
    IN  IF Len(d) # 11 THEN FALSE
        ELSE IF CheckDigit(WeightedSum(d, 9, 10)) # DigitValue(d[10]) THEN FALSE
        ELSE CheckDigit(WeightedSum(d, 10, 11)) = DigitValue(d[11])

validateCPF(cpf) ==
    LET d == StripNonDigits(cpf)
    IN  IF Len(d) # 11 THEN FALSE
        ELSE IF AllSameDigit(d) THEN FALSE
        ELSE IF CheckDigit(WeightedSum(d, 9, 10)) # DigitValue(d[10]) THEN FALSE
        ELSE CheckDigit(WeightedSum(d, 10, 11)) = DigitValue(d[11])

CpfMinLen == 14

\* z.string().min(14, ...).refine((cpf) => validateCPF(cpf), ...): the
\* field is valid iff neither check raises an issue
CpfFieldValid(cpf) == Len(cpf) >= CpfMinLen /\ validateCPF(cpf)

NoVerdict == [input |-> "none", other |-> "none"]

----------------------------------------------------------------------------
(* RegisterForm: the CPF and CEP inputs, handleCepChange and the address   *)
(* fields it fills. The other inputs (name, surname, email, password, sex, *)
(* birthDate), typing into the address inputs and onSubmit touch none of   *)
(* what is modelled here and are left out. A postal-code change that would *)
(* issue a lookup beyond MaxLookups is not taken.                          *)

\* useForm defaultValues (of the fields modelled) and useState(false)
FormInit ==
    /\ form = [cpf |-> <<>>, cep |-> <<>>, city |-> <<>>, state |-> <<>>,
               street |-> <<>>, neighborhood |-> <<>>, complement |-> <<>>]
    /\ loadingCep = FALSE
    /\ lookups = <<>>
    /\ lastChange = [field |-> "none", value |-> <<>>, lookup |-> 0]

\* value={maskCpf(watch('cpf'))} and value={maskCep(watch('cep'))}: what the
\* two controlled inputs show
CpfDisplayed == maskCpf(form.cpf)

CepDisplayed == maskCep(form.cep)

\* res.data for a postal code: every field names the code it was looked up by
ViaCep(cep) ==
    [localidade |-> <<"L">> \o cep, uf |-> <<"U">> \o cep,
     logradouro |-> <<"R">> \o cep, bairro |-> <<"B">> \o cep,
     complemento |-> <<"C">> \o cep]

\* the lookups whose axios.get has not settled yet
InFlight == {i \in 1..Len(lookups) : lookups[i].status = "pending"}

MaxLookups == 2

CpfKeys == {"5"}

CpfPastes ==
    { <<"1","1","1","4","4","4","7","7","7","3","5">>,
      <<"1","1","1",".","4","4","4",".","7","7","7","-","3","5">> }

CepKeys == {"0"}

CepPastes ==
    { <<"0","1","3","1","0","9","3","0">>,
      <<"2","0","0","4","0","-","0","2","0">>,
      <<"0","1","3","1","0","9","3","0","1">> }

\* e.target.value after one edit of an input showing shown: a key typed at
\* the end, the content deleted, or the content replaced by a paste; an edit
\* that leaves the input as shown raises no change event
Edits(shown, keys, pastes) ==
    ({shown \o <<k>> : k \in keys} \cup {<<>>} \cup pastes) \ {shown}

\* onChange={(e) => setValue('cpf', e.target.value)}
ChangeCpf(value) ==
    /\ form' = [form EXCEPT !.cpf = value]
    /\ lastChange' = [field |-> "cpf", value |-> value, lookup |-> 0]
    /\ UNCHANGED <<loadingCep, lookups, pureVars>>

\* onChange of the CEP input: setValue('cep', value); handleCepChange(value),
\* which runs up to its await: setLoadingCep(true) and the axios.get call
ChangeCep(value) ==
    LET cleanCep == StripNonDigits(value)
    IN  /\ form' = [form EXCEPT !.cep = value]
        /\ IF Len(cleanCep) = 8
           THEN /\ Len(lookups) < MaxLookups
                /\ loadingCep' = TRUE
                /\ lookups' = Append(lookups, [cep |-> cleanCep, status |-> "pending"])
                /\ lastChange' = [field |-> "cep", value |-> value,
                                  lookup |-> Len(lookups) + 1]
           ELSE /\ UNCHANGED <<loadingCep, lookups>>
                /\ lastChange' = [field |-> "cep", value |-> value, lookup |-> 0]
        /\ UNCHANGED pureVars

\* the await of lookup i resolves: the five setValue calls, then finally
LookupResolves(i) ==
    LET data == ViaCep(lookups[i].cep)
    IN  /\ lookups[i].status = "pending"
        /\ form' = [form EXCEPT !.city = data.localidade,
                                !.state = data.uf,
                                !.street = data.logradouro,
                                !.neighborhood = data.bairro,
                                !.complement = data.complemento]
        /\ loadingCep' = FALSE
        /\ lookups' = [lookups EXCEPT ![i].status = "resolved"]
        /\ UNCHANGED <<lastChange, pureVars>>

\* setLoadingCep(false) written as the last statement of the try block, not
\* in finally: a rejected lookup leaves the flag set
LookupRejectsKeepsLoading(i) ==
    /\ lookups[i].status = "pending"
    /\ lookups' = [lookups EXCEPT ![i].status = "rejected"]
    /\ UNCHANGED <<form, loadingCep, lastChange, pureVars>>

\* the await of lookup i rejects: catch logs, then finally
LookupRejects(i) ==
    /\ lookups[i].status = "pending"
    /\ loadingCep' = FALSE
    /\ lookups' = [lookups EXCEPT ![i].status = "rejected"]
    /\ UNCHANGED <<form, lastChange, pureVars>>

Init ==
    /\ FormInit
    /\ input = <<>>
    /\ call = "none"
    /\ masked = <<>>
    /\ remasked = <<>>
    /\ other = <<>>
    /\ verdict = NoVerdict

Next ==
    \/ \E value \in Edits(CpfDisplayed, CpfKeys, CpfPastes) : ChangeCpf(value)
    \/ \E value \in Edits(CepDisplayed, CepKeys, CepPastes) : ChangeCep(value)
    \/ \E i \in 1..Len(lookups) : LookupResolves(i)
    \/ \E i \in 1..Len(lookups) : LookupRejects(i)

Spec == Init /\ [][Next]_vars

----------------------------------------------------------------------------
(* Inputs of the pure functions: a run of digits, cut to any length up to  *)
(* MaxDigits, with at most MaxJunk non-digit characters put anywhere.      *)

MaxDigits == 12
MaxJunk == 1

JunkChars == {".", "-", "a"}

DigitSeeds ==
    { <<"1","1","1","4","4","4","7","7","7","3","5","9","0","2">>,
      <<"5","2","9","9","8","2","2","4","7","2","5","0","1","3">>,
      <<"2","0","0","4","0","0","2","0","9","8","7","6","5","4">>,
      <<"0","0","0","0","0","0","0","0","0","0","0","0","0","0">>,
      <<"0","1","3","1","0","9","3","0","1","2","3","4","5","6">>,
      <<"1","2","3","4","5","6","7","8","9","0","0","1","2","3">>,
      <<"7","7","7","7","7","7","7","7","7","7","7","7","7","7">> }

DigitStrings ==
    {Slice(d, n) : d \in DigitSeeds, n \in 0..MaxDigits}

\* the strings of S, each also with one non-digit put at any position
JunkAdded(S) ==
    LET lens == {Len(s) : s \in S}
        longest == CHOOSE m \in lens : \A n \in lens : n <= m
    IN  S \cup {InsertAt(x[1], x[2], <<x[3]>>) :
                   x \in {y \in S \X (0..longest) \X JunkChars : y[2] <= Len(y[1])}}

RECURSIVE WithJunk(_, _)
WithJunk(S, n) ==
    IF n = 0 THEN S ELSE JunkAdded(WithJunk(S, n - 1))

MaskInputs == WithJunk(DigitStrings, MaxJunk)

----------------------------------------------------------------------------
(* The masks as calls: a caller applies a mask to an input, and may then   *)
(* apply the same mask to what it returned.                                *)

MaskInit ==
    /\ input \in MaskInputs
    /\ call = "none"
    /\ masked = <<>>
    /\ remasked = <<>>
    /\ other = <<>>
    /\ verdict = NoVerdict
    /\ FormInit

CallMaskCep ==
    /\ call = "none"
    /\ masked' = maskCep(input)
    /\ call' = "maskCep"
    /\ UNCHANGED <<input, remasked, other, verdict, formVars>>

CallMaskCpf ==
    /\ call = "none"
    /\ masked' = maskCpf(input)
    /\ call' = "maskCpf"
    /\ UNCHANGED <<input, remasked, other, verdict, formVars>>

RecallMaskCep ==
    /\ call = "maskCep"
    /\ remasked' = maskCep(masked)
    /\ call' = "maskCep.maskCep"
    /\ UNCHANGED <<input, masked, other, verdict, formVars>>

RecallMaskCpf ==
    /\ call = "maskCpf"
    /\ remasked' = maskCpf(masked)
    /\ call' = "maskCpf.maskCpf"
    /\ UNCHANGED <<input, masked, other, verdict, formVars>>

MaskNext ==
    \/ CallMaskCep
    \/ CallMaskCpf
    \/ RecallMaskCep
    \/ RecallMaskCpf

SpecMask == MaskInit /\ [][MaskNext]_vars

----------------------------------------------------------------------------
(* The tax-ID validation as calls. The inputs are nine base digits with    *)
(* two check digits tried after them, strings one digit short or long,     *)
(* each with at most MaxJunk non-digits put anywhere; other is the same    *)
(* digits in the opposite form (masked when input is bare digits, bare     *)
(* digits otherwise).                                                      *)

CpfBases ==
    { <<"1","1","1","4","4","4","7","7","7">>,
      <<"1","2","3","4","5","6","7","8","9">>,
      <<"5","2","9","9","8","2","2","4","7">>,
      <<"1","1","1","1","1","1","1","1","1">>,
      <<"0","0","0","0","0","0","0","0","0">> }

FirstCheckTried == {"0", "1", "2", "3"}

SecondCheckTried == {"0", "1", "5", "9"}

CpfDigitStrings ==
    LET full == {b \o <<x, y>> : b \in CpfBases, x \in FirstCheckTried, y \in SecondCheckTried}
    IN  full \cup CpfBases \cup {<<>>}
             \cup {f \o <<"7">> : f \in {b \o <<"3", "5">> : b \in CpfBases}}

CpfInputs == WithJunk(CpfDigitStrings, MaxJunk)

OtherForm(s) == IF s = StripNonDigits(s) THEN maskCpf(s) ELSE StripNonDigits(s)

ValidateInit ==
    /\ input \in CpfInputs
    /\ other = OtherForm(input)
    /\ call = "none"
    /\ verdict = NoVerdict
    /\ masked = <<>>
    /\ remasked = <<>>
    /\ FormInit

CallValidateCPF ==
    /\ call = "none"
    /\ verdict' = [input |-> validateCPF(input), other |-> validateCPF(other)]
    /\ call' = "validateCPF"
    /\ UNCHANGED <<input, other, masked, remasked, formVars>>

ParseCpfField ==
    /\ call = "none"
    /\ verdict' = [input |-> CpfFieldValid(input), other |-> CpfFieldValid(other)]
    /\ call' = "registerSchema.cpf"
    /\ UNCHANGED <<input, other, masked, remasked, formVars>>

ValidateNext ==
    \/ CallValidateCPF
    \/ ParseCpfField

SpecValidate == ValidateInit /\ [][ValidateNext]_vars

----------------------------------------------------------------------------
(* Properties of the masks                                                 *)

CepCalled == call \in {"maskCep", "maskCep.maskCep"}
CpfCalled == call \in {"maskCpf", "maskCpf.maskCpf"}

\* the digit sequence of the input, capped at n digits
DigitSequence(s, n) == Slice(StripNonDigits(s), n)

\* the postal code as the data model describes it
CepReference(s) ==
    LET d == DigitSequence(s, 8)
    IN  IF Len(d) <= 5 THEN d
        ELSE SubSeq(d, 1, 5) \o <<"-">> \o SubSeq(d, 6, Len(d))

\* C1: maskCep(s) is the digits of s capped at 8, unchanged when there are
\* at most 5 and with a hyphen after the fifth otherwise; so it is never
\* longer than 9 characters and holds a hyphen only at index 5, which is
\* there iff s has at least 6 digits.
C1_MaskCepIsReference ==
    CepCalled =>
        /\ masked = CepReference(input)
        /\ Len(masked) <= 9
        /\ \A i \in 1..Len(masked) : masked[i] = "-" => i = 6
        /\ (Len(masked) >= 6 /\ masked[6] = "-") <=> Len(StripNonDigits(input)) >= 6

\* an input of nine digits and a non-digit, masked to 01310-930
C1_Witness ==
    /\ call = "maskCep"
    /\ Len(StripNonDigits(input)) = 9
    /\ Len(input) = 10
    /\ masked = <<"0","1","3","1","0","-","9","3","0">>

IsSeparator(c) == c \in {".", "-"}

NotSeparator(c) == ~IsSeparator(c)

StripSeparators(s) == SelectSeq(s, NotSeparator)

\* NNN.NNN.NNN-NN
IsFullCpf(s) ==
    /\ Len(s) = 14
    /\ s[4] = "." /\ s[8] = "." /\ s[12] = "-"
    /\ \A i \in (1..14) \ {4, 8, 12} : IsDigit(s[i])

\* C2: without its separators, maskCpf(s) is the first 11 digits of s (all
\* of them when s has fewer), in order; it is never longer than 14
\* characters, and NNN.NNN.NNN-NN when s has 11 digits or more.
C2_MaskCpfKeepsDigits ==
    CpfCalled =>
        /\ StripSeparators(masked) = DigitSequence(input, 11)
        /\ Len(masked) <= 14
        /\ Len(StripNonDigits(input)) >= 11 => IsFullCpf(masked)

\* an over-long input: twelve digits and a non-digit, masked to 111.444.777-35
C2_Witness ==
    /\ call = "maskCpf"
    /\ Len(StripNonDigits(input)) = 12
    /\ Len(input) = 13
    /\ masked = <<"1","1","1",".","4","4","4",".","7","7","7","-","3","5">>

\* the non-digits of s, each with its position
SeparatorsOf(s) == {<<i, s[i]>> : i \in {j \in 1..Len(s) : ~IsDigit(s[j])}}

\* a dot at 4 from a digits on, a dot at 8 from b digits on, a hyphen at 12
\* from c digits on
SeparatorsFrom(k, a, b, c) ==
    {sep \in {<<4, ".">>, <<8, ".">>, <<12, "-">>} :
        \/ sep[1] = 4 /\ k >= a
        \/ sep[1] = 8 /\ k >= b
        \/ sep[1] = 12 /\ k >= c}

\* C3 as stated: each separator is there once the digit it follows is
\* there (the 3rd, the 6th, the 9th), and there is no other separator.
C3_SeparatorOnceDigitPresent ==
    CpfCalled =>
        SeparatorsOf(masked) = SeparatorsFrom(Len(DigitSequence(input, 11)), 3, 6, 9)

\* C3 as amended: each separator is there once the digit that follows it
\* is there (the 4th, the 7th, the 10th), and there is no other separator.
C3_SeparatorOnceNextDigitPresent ==
    CpfCalled =>
        SeparatorsOf(masked) = SeparatorsFrom(Len(DigitSequence(input, 11)), 4, 7, 10)

\* a partially typed tax ID of exactly nine digits: two dots and no hyphen
C3_Witness ==
    /\ call = "maskCpf"
    /\ Len(StripNonDigits(input)) = 9
    /\ masked = <<"1","1","1",".","4","4","4",".","7","7","7">>

\* C4: applying a mask to what it returned returns the same string.
C4_MasksIdempotent ==
    call \in {"maskCep.maskCep", "maskCpf.maskCpf"} => remasked = masked

\* maskCep applied twice to an over-long input with a non-digit in it
C4_Witness ==
    /\ call = "maskCep.maskCep"
    /\ Len(StripNonDigits(input)) > 8
    /\ Len(input) > Len(StripNonDigits(input))
    /\ Len(remasked) = 9

----------------------------------------------------------------------------
(* Properties of the tax-ID validation                                     *)

\* the check digit of the digits d[1..n]: the weights fall from n + 1 to 2
ExpectedCheckDigit(d, n) ==
    LET Product(i) == DigitValue(d[i]) * (n + 2 - i)
        sum == IF n = 9
               THEN Product(1) + Product(2) + Product(3) + Product(4) + Product(5)
                    + Product(6) + Product(7) + Product(8) + Product(9)
               ELSE Product(1) + Product(2) + Product(3) + Product(4) + Product(5)
                    + Product(6) + Product(7) + Product(8) + Product(9) + Product(10)
        r == sum % 11
    IN  IF r \in {0, 1} THEN 0 ELSE 11 - r

IsValidTaxId(s) ==
    LET d == StripNonDigits(s)
    IN  /\ Len(d) = 11
        /\ \E i \in 2..11 : d[i] # d[1]
        /\ DigitValue(d[10]) = ExpectedCheckDigit(d, 9)
        /\ DigitValue(d[11]) = ExpectedCheckDigit(d, 10)

\* C5: validateCPF answers true iff the input has exactly 11 digits, not
\* all the same, whose 10th and 11th are the two modulo-11 check digits;
\* for every other string it answers false.
C5_ValidateCpfIsChecksum ==
    call = "validateCPF" => verdict.input = IsValidTaxId(input)

\* a tax ID with a non-digit in it that validateCPF accepts
C5_Witness ==
    /\ call = "validateCPF"
    /\ verdict.input = TRUE
    /\ Len(input) = 12

\* C6: two strings with the same digits in the same order get the same
\* verdict from the validation of the cpf field.
C6_FieldVerdictFromDigitsOnly ==
    (call = "registerSchema.cpf" /\ StripNonDigits(input) = StripNonDigits(other))
        => verdict.input = verdict.other

----------------------------------------------------------------------------
(* Properties of RegisterForm                                              *)

\* C7: after every change event on the tax-ID field and on the postal-code
\* field, form state holds the masked new value, which is what the field
\* shows.
C7_FormHoldsMaskedValue ==
    /\ lastChange.field = "cpf" =>
          form.cpf = maskCpf(lastChange.value) /\ form.cpf = CpfDisplayed
    /\ lastChange.field = "cep" =>
          form.cep = maskCep(lastChange.value) /\ form.cep = CepDisplayed

\* C8: a change after which the postal code shown (the digits of the new
\* value capped at 8) has 8 digits issues a lookup keyed by those digits; a
\* change that leaves fewer issues none.
C8_LookupIffEightDigitsShown ==
    lastChange.field = "cep" =>
        LET shown == StripNonDigits(maskCep(lastChange.value))
        IN  IF Len(shown) = 8
            THEN /\ lastChange.lookup # 0
                 /\ lookups[lastChange.lookup].cep = shown
            ELSE lastChange.lookup = 0

AddressFields(f) == <<f.city, f.state, f.street, f.neighborhood, f.complement>>

Settles(i, outcome) ==
    /\ i \in 1..Len(lookups)
    /\ lookups[i].status = "pending"
    /\ lookups'[i].status = outcome

\* C9: a step in which a lookup fails leaves the five address fields, the
\* postal code and the tax ID as they were and clears the loading flag; the
\* address fields change only in a step in which a lookup succeeds.
C9_FailedLookupLeavesForm ==
    [][ /\ (\E i \in 1..Len(lookups) : Settles(i, "rejected")) =>
              form' = form /\ loadingCep' = FALSE
        /\ AddressFields(form') # AddressFields(form) =>
              \E i \in 1..Len(lookups) : Settles(i, "resolved") ]_vars

\* a lookup failed after an earlier one had filled the address: the fields
\* still hold the earlier record and the loading flag is clear
C9_Witness ==
    /\ Len(lookups) = 2
    /\ lookups[1].status = "resolved"
    /\ lookups[2].status = "rejected"
    /\ lookups[1].cep # lookups[2].cep
    /\ form.city = ViaCep(lookups[1].cep).localidade
    /\ form.complement = ViaCep(lookups[1].cep).complemento
    /\ ~loadingCep

\* C10: the loading flag is set whenever a lookup is in flight, and once
\* every lookup has settled the address fields hold the record of the
\* postal code entered last (if its lookup succeeded).
C10_LatestLookupWins ==
    /\ InFlight # {} => loadingCep
    /\ (/\ InFlight = {}
        /\ Len(lookups) > 0
        /\ lookups[Len(lookups)].status = "resolved")
       => form.city = ViaCep(lookups[Len(lookups)].cep).localidade

====
